---- MODULE Spec2Model ----
(***************************************************************************)
(* Model of hagadias.helpers.DiceBag (src/hagadias/helpers.py).            *)
(*                                                                         *)
(* A dice string is a sequence of one-character strings.  A Python float   *)
(* that holds a whole number is an Int; the accumulator of average(),      *)
(* which holds multiples of 0.5, is kept in half units, and int() is the   *)
(* conversion from half units that truncates toward zero.  All numbers of  *)
(* the model are far below 2^53, where this float arithmetic is exact.     *)
(***************************************************************************)
EXTENDS Integers, Sequences, FiniteSets

\* ---------------------------------------------------------------- bounds
\* The inputs are every string of at most MaxLen characters, and every
\* concatenation of at most MaxTerms of the signed terms below.
MaxLen == 3

MaxTerms == 2

\* ---------------------------------------------------------------- characters
Digits == {"0", "1", "2"}

Whitespace == {" "}

SignChars == {"+", "-"}

\* the class of pattern_valid_dice: [\d\sd+-]
ValidChars == Digits \cup Whitespace \cup {"d"} \cup SignChars

\* a character outside every class the patterns name
OtherChars == {"x"}

Chars == ValidChars \cup OtherChars

SignedTerms ==
    {<<"+", "1", "d", "2">>, <<"-", "1", "d", "2">>, <<"+", "2", "d", "2">>,
     <<"-", "2", "d", "1">>, <<"-", "2">>, <<"+", "1">>}

RECURSIVE Flatten(_)
Flatten(ss) == IF ss = <<>> THEN <<>> ELSE Head(ss) \o Flatten(Tail(ss))

CharStrings == UNION {[1..n -> Chars] : n \in 0..MaxLen}

TermStrings == {Flatten(ts) : ts \in UNION {[1..n -> SignedTerms] : n \in 1..MaxTerms}}

Inputs == CharStrings \cup TermStrings

\* ---------------------------------------------------------------- patterns
\* first index at or after i whose character is not in class
RECURSIVE RunEnd(_, _, _)
RunEnd(s, i, class) ==
    IF i <= Len(s) /\ s[i] \in class THEN RunEnd(s, i + 1, class) ELSE i

\* pattern_valid_dice.match(s): length of the match at position 1, 0 for None
pattern_valid_dice(s) == RunEnd(s, 1, ValidChars) - 1

\* "".join(dice_string.split())
IsNotWhitespace(c) == c \notin Whitespace

StripWhitespace(s) == SelectSeq(s, IsNotWhitespace)

\* pattern_dice_segment.finditer(s) from position i: [+-]?[^+-]+
RECURSIVE pattern_dice_segment(_, _)
pattern_dice_segment(s, i) ==
    IF i > Len(s) THEN <<>>
    ELSE LET start == IF s[i] \in SignChars THEN i + 1 ELSE i
             end   == RunEnd(s, start, Chars \ SignChars)
         IN  IF end > start
             THEN <<SubSeq(s, i, end - 1)>> \o pattern_dice_segment(s, end)
             ELSE pattern_dice_segment(s, i + 1)

NoMatch == [matched |-> FALSE, g1 |-> <<>>, g2 |-> <<>>]

\* position after the optional sign of a segment
AfterSign(seg) == IF Len(seg) >= 1 /\ seg[1] \in SignChars THEN 2 ELSE 1

\* pattern_die_roll.match(seg): ^([+-]?\d+)d(\d+)$
pattern_die_roll(seg) ==
    LET p0 == AfterSign(seg)
        p1 == RunEnd(seg, p0, Digits)
        p2 == RunEnd(seg, p1 + 1, Digits)
    IN  IF p1 > p0 /\ p1 <= Len(seg) /\ seg[p1] = "d"
           /\ p2 > p1 + 1 /\ p2 = Len(seg) + 1
        THEN [matched |-> TRUE, g1 |-> SubSeq(seg, 1, p1 - 1),
              g2 |-> SubSeq(seg, p1 + 1, Len(seg))]
        ELSE NoMatch

\* pattern_die_bonus.match(seg): ^([+-]?\d+)$
pattern_die_bonus(seg) ==
    LET p0 == AfterSign(seg)
        p1 == RunEnd(seg, p0, Digits)
    IN  IF p1 > p0 /\ p1 = Len(seg) + 1
        THEN [matched |-> TRUE, g1 |-> seg, g2 |-> <<>>]
        ELSE NoMatch

\* ---------------------------------------------------------------- float()
DigitVal(c) == CASE c = "0" -> 0 [] c = "1" -> 1 [] c = "2" -> 2

RECURSIVE Decimal(_)
Decimal(ds) ==
    IF ds = <<>> THEN 0
    ELSE 10 * Decimal(SubSeq(ds, 1, Len(ds) - 1)) + DigitVal(ds[Len(ds)])

\* float(str) of an optionally signed run of digits
float(str) ==
    IF str[1] = "-" THEN 0 - Decimal(Tail(str))
    ELSE IF str[1] = "+" THEN Decimal(Tail(str))
    ELSE Decimal(str)

\* int(val) of a float given in half units: truncation toward zero
int(h) == IF h >= 0 THEN h \div 2 ELSE 0 - ((0 - h) \div 2)

\* ---------------------------------------------------------------- DiceBag
Die(quantity, size) == [quantity |-> quantity, size |-> size]

\* the loop of __init__ over the segments, from segment i with the bag so far
RECURSIVE ParseSegments(_, _, _)
ParseSegments(segs, i, bag) ==
    IF i > Len(segs) THEN [error |-> "none", bag |-> bag]
    ELSE LET m == pattern_die_roll(segs[i])
             b == pattern_die_bonus(segs[i])
         IN  IF m.matched
             THEN ParseSegments(segs, i + 1,
                                Append(bag, Die(float(m.g1), float(m.g2))))
             ELSE IF b.matched
             THEN ParseSegments(segs, i + 1, Append(bag, Die(float(b.g1), 1)))
             ELSE [error |-> "unsupported_segment", bag |-> <<>>]

\* DiceBag.__init__(dice_string)
DiceBagInit(s) ==
    IF pattern_valid_dice(s) = 0
    THEN [error |-> "invalid_characters", bag |-> <<>>]
    ELSE ParseSegments(pattern_dice_segment(StripWhitespace(s), 1), 1, <<>>)

\* the accumulator of average() in half units, from term i
RECURSIVE AverageHalves(_, _, _)
AverageHalves(bag, i, val) ==
    IF i > Len(bag) THEN val
    ELSE AverageHalves(bag, i + 1, val + bag[i].quantity * (1 + bag[i].size))

\* a variant that truncates every term's contribution before adding it
RECURSIVE AveragePerTerm(_, _, _)
AveragePerTerm(bag, i, val) ==
    IF i > Len(bag) THEN val
    ELSE AveragePerTerm(bag, i + 1,
                        val + int(bag[i].quantity * (1 + bag[i].size)))

average_per_term(bag) == AveragePerTerm(bag, 1, 0)

average(bag) == int(AverageHalves(bag, 1, 0))

RECURSIVE MinimumLoop(_, _, _)
MinimumLoop(bag, i, val) ==
    IF i > Len(bag) THEN val
    ELSE MinimumLoop(bag, i + 1,
                     IF bag[i].quantity >= 0
                     THEN val + bag[i].quantity * 1
                     ELSE val + bag[i].quantity * bag[i].size)

\* a variant without the branch on the sign of the quantity
RECURSIVE MinimumNoBranch(_, _, _)
MinimumNoBranch(bag, i, val) ==
    IF i > Len(bag) THEN val
    ELSE MinimumNoBranch(bag, i + 1, val + bag[i].quantity * 1)

minimum_no_branch(bag) == int(2 * MinimumNoBranch(bag, 1, 0))

minimum(bag) == int(2 * MinimumLoop(bag, 1, 0))

RECURSIVE MaximumLoop(_, _, _)
MaximumLoop(bag, i, val) ==
    IF i > Len(bag) THEN val
    ELSE MaximumLoop(bag, i + 1,
                     IF bag[i].quantity >= 0
                     THEN val + bag[i].quantity * bag[i].size
                     ELSE val + bag[i].quantity * 1)

\* a variant without the branch on the sign of the quantity
RECURSIVE MaximumNoBranch(_, _, _)
MaximumNoBranch(bag, i, val) ==
    IF i > Len(bag) THEN val
    ELSE MaximumNoBranch(bag, i + 1, val + bag[i].quantity * bag[i].size)

maximum_no_branch(bag) == int(2 * MaximumNoBranch(bag, 1, 0))

maximum(bag) == int(2 * MaximumLoop(bag, 1, 0))

Returned(v) == [ok |-> TRUE, val |-> v]

Raised == [ok |-> FALSE, val |-> 0]

\* random.randrange(s): any of 0..s-1, ValueError for an empty range
randrange(s) == IF s >= 1 THEN {Returned(r) : r \in 0..(s - 1)} ELSE {Raised}

\* one pass of an inner loop of shake(): val += sgn * (randrange(s) + 1)
Roll(acc, s, sgn) ==
    UNION {IF o.ok
           THEN {IF d.ok THEN Returned(o.val + sgn * (d.val + 1)) ELSE Raised
                 : d \in randrange(s)}
           ELSE {o} : o \in acc}

\* n passes of an inner loop of shake(); the n passes are split in two halves
\* so that the evaluation depth stays logarithmic in n
RECURSIVE RollN(_, _, _, _)
RollN(acc, n, s, sgn) ==
    IF n = 0 THEN acc
    ELSE IF n = 1 THEN Roll(acc, s, sgn)
    ELSE LET half == RollN(acc, n \div 2, s, sgn)
         IN  IF half = {} THEN half ELSE RollN(half, n - (n \div 2), s, sgn)

\* the outer loop of shake() from term i: every outcome of the draws
RECURSIVE ShakeLoop(_, _, _)
ShakeLoop(bag, i, acc) ==
    IF i > Len(bag) THEN acc
    ELSE LET q == bag[i].quantity
             s == bag[i].size
         IN  ShakeLoop(bag, i + 1,
                       IF q > 0 THEN RollN(acc, q, s, 1)
                       ELSE IF q < 0 THEN RollN(acc, 0 - q, s, -1)
                       ELSE acc)

shake(bag) == ShakeLoop(bag, 1, {Returned(0)})

\* ---------------------------------------------------------------- state
VARIABLES dice_string, status, dice_bag, op, ret

vars == <<dice_string, status, dice_bag, op, ret>>

Init ==
    /\ dice_string \in Inputs
    /\ status = "new"
    /\ dice_bag = <<>>
    /\ op = "none"
    /\ ret = Returned(0)

Construct ==
    /\ status = "new"
    /\ LET r == DiceBagInit(dice_string)
       IN  /\ status' = IF r.error = "none" THEN "constructed" ELSE r.error
           /\ dice_bag' = r.bag
    /\ UNCHANGED <<dice_string, op, ret>>

Average ==
    /\ status = "constructed"
    /\ op' = "average"
    /\ ret' = Returned(average(dice_bag))
    /\ UNCHANGED <<dice_string, status, dice_bag>>

Minimum ==
    /\ status = "constructed"
    /\ op' = "minimum"
    /\ ret' = Returned(minimum(dice_bag))
    /\ UNCHANGED <<dice_string, status, dice_bag>>

Maximum ==
    /\ status = "constructed"
    /\ op' = "maximum"
    /\ ret' = Returned(maximum(dice_bag))
    /\ UNCHANGED <<dice_string, status, dice_bag>>

Shake ==
    /\ status = "constructed"
    /\ op' = "shake"
    /\ ret' \in shake(dice_bag)
    /\ UNCHANGED <<dice_string, status, dice_bag>>

Next == Construct \/ Average \/ Minimum \/ Maximum \/ Shake

Spec == Init /\ [][Next]_vars

\* ---------------------------------------------------------------- properties
Constructed == status = "constructed"

AllSizesPositive == \A i \in 1..Len(dice_bag) : dice_bag[i].size >= 1

HasNegativeDice ==
    \E i \in 1..Len(dice_bag) : dice_bag[i].quantity < 0 /\ dice_bag[i].size >= 2

\* twice the exact average: the sum over the terms of quantity * (1 + size)
RECURSIVE TwiceExactAverage(_)
TwiceExactAverage(bag) ==
    IF bag = <<>> THEN 0
    ELSE Head(bag).quantity * (1 + Head(bag).size) + TwiceExactAverage(Tail(bag))

\* the die-roll and constant grammars of the documentation, read character by
\* character: [+-]? digits (d digits)? repeated, every later segment signed
GrammarStep(st, c) ==
    CASE st = "start" /\ c \in SignChars -> "sign"
      [] st = "start" /\ c \in Digits -> "quantity"
      [] st = "sign" /\ c \in Digits -> "quantity"
      [] st = "quantity" /\ c \in Digits -> "quantity"
      [] st = "quantity" /\ c = "d" -> "d"
      [] st = "quantity" /\ c \in SignChars -> "sign"
      [] st = "d" /\ c \in Digits -> "sides"
      [] st = "sides" /\ c \in Digits -> "sides"
      [] st = "sides" /\ c \in SignChars -> "sign"
      [] OTHER -> "reject"

RECURSIVE GrammarRun(_, _, _)
GrammarRun(s, i, st) ==
    IF i > Len(s) THEN st ELSE GrammarRun(s, i + 1, GrammarStep(st, s[i]))

GrammarOnly(s) == GrammarRun(s, 1, "start") \in {"quantity", "sides"}

C2_GrammarInputOrdered ==
    (status # "new" /\ GrammarOnly(dice_string))
        => /\ Constructed
           /\ minimum(dice_bag) <= average(dice_bag)
           /\ average(dice_bag) <= maximum(dice_bag)

\* C3: after a successful construction no evaluation operation raises.
C3_EvaluationNeverRaises == (Constructed /\ op # "none") => ret.ok

\* C4: every term of a constructed bag has size >= 1.
C4_SizesPositive == Constructed => AllSizesPositive

\* C5: a constructed bag holds at least one term.
C5_BagNonEmpty == Constructed => Len(dice_bag) >= 1

\* C6: an input with a character outside the valid class, at any position,
\* fails with the invalid-characters error.
C6_InvalidCharacterRejected ==
    (status # "new" /\ \E i \in 1..Len(dice_string) : dice_string[i] \notin ValidChars)
        => status = "invalid_characters"

\* C7: the segments of an accepted input concatenate to the whole stripped
\* string, one term per segment, and every sign character is followed by a digit.
C7_SegmentsCoverInput ==
    Constructed =>
        LET clean == StripWhitespace(dice_string)
            segs  == pattern_dice_segment(clean, 1)
        IN  /\ Flatten(segs) = clean
            /\ Len(dice_bag) = Len(segs)
            /\ \A i \in 1..Len(clean) :
                   clean[i] \in SignChars
                       => (i < Len(clean) /\ clean[i + 1] \in Digits)

\* C8: when every size is >= 1, minimum() and maximum() are the smallest and
\* the largest value shake() can return, and both are attained.
C8_BoundsAttained ==
    (Constructed /\ AllSizesPositive)
        => LET out == shake(dice_bag)
           IN  /\ Returned(minimum(dice_bag)) \in out
               /\ Returned(maximum(dice_bag)) \in out
               /\ \A o \in out : /\ o.ok
                                 /\ minimum(dice_bag) <= o.val
                                 /\ o.val <= maximum(dice_bag)

C8_Witness ==
    /\ Constructed /\ AllSizesPositive /\ HasNegativeDice
    /\ op = "shake" /\ ret = Returned(minimum(dice_bag))
    /\ minimum(dice_bag) < maximum(dice_bag)

C10_AverageIsFloor ==
    (Constructed /\ op = "average")
        => ret = Returned(TwiceExactAverage(dice_bag) \div 2)
====
